---- MODULE Spec2Model ----
(***************************************************************************)
(* A model of the iNaturalist Bingo App: the card generator                *)
(* (bingo_generator.py, models.py), the PDF renderer (pdf_renderer.py,      *)
(* image_processor.py, config.py), the species source and its cache        *)
(* (inaturalist_client.py) and the application shell (ui.py).              *)
(*                                                                         *)
(* Lengths are in tenths of a point (1 inch = 72 pt = 720 units), so that  *)
(* every length of config.py is an integer.  Scaled row heights are exact  *)
(* fractions [num, den]; floating-point rounding is not modelled.          *)
(***************************************************************************)
EXTENDS Integers, Sequences, FiniteSets, TLC

VARIABLES
    species_pool,   \* BingoGenerator.species_pool
    pool0,          \* history: the pool the generator was constructed with
    call,           \* the last generator call and its arguments
    result,         \* what that call returned or raised
    ref,            \* history: an earlier single generate_card call and its card
    rcard,          \* the card handed to _calculate_dynamic_row_heights
    toggles,        \* photo_on, common_on, sci_on
    row_heights,    \* what _calculate_dynamic_row_heights returned
    upstream,       \* the upstream answer to the species_counts query
    top_n,          \* fetch_top_species' target count
    fetched,        \* what fetch_top_species returned or raised
    rcards,         \* what generate_cards gave the renderer: [kind, cards]
    photos,         \* what the download and decoding of each photo ends in
    rendered,       \* what render_cards returned or raised
    api,            \* what the iNaturalist API answers at present
    cache,          \* the entries of st.cache_data for fetch_top_species
    clock,          \* the time, in seconds
    fetch_log,      \* history: the last cached fetch_top_species call
    form,           \* form_data, what _render_form returned
    pc,             \* the position of the run in _process_form_data
    place_id,       \* place_id of _process_form_data
    app_pool,       \* species_pool of _process_form_data
    ui_out          \* what the run has shown: errors, success, download button

vars == <<species_pool, pool0, call, result, ref, rcard, toggles, row_heights,
          upstream, top_n, fetched, rcards, photos, rendered, api, cache,
          clock, fetch_log, form, pc, place_id, app_pool, ui_out>>

genVars == <<species_pool, pool0, call, result, ref>>
rowVars == <<rcard, toggles, row_heights>>
fetchVars == <<upstream, top_n, fetched>>
renderVars == <<rcards, photos, rendered>>
cacheVars == <<api, cache, clock, fetch_log>>
appVars == <<form, pc, place_id, app_pool, ui_out>>
shellVars == <<renderVars, cacheVars, appVars>>

----------------------------------------------------------------------------
(* Bounds of the model. *)

MaxGrid == 5        \* grid_size ranges over 1..MaxGrid
MaxCards == 2       \* num_cards ranges over 0..MaxCards
MaxDetGrid == 3     \* grid_size ranges over 1..MaxDetGrid where calls are compared
MaxResults == 3     \* the upstream answer holds 0..MaxResults records
MaxTop == 2         \* top_n ranges over 0..MaxTop

----------------------------------------------------------------------------
(* models.py *)

Species(id, common, sci, url) ==
    [taxon_id |-> id, common_name |-> common, scientific_name |-> sci,
     image_url |-> url]

FREE == [marker |-> "FREE"]

IsSpecies(cell) == "taxon_id" \in DOMAIN cell

\* int | None
NoSeed == [given |-> FALSE, val |-> 0]
IntSeed(n) == [given |-> TRUE, val |-> n]

\* BingoCard.__post_init__: TRUE iff the validation raises nothing
PostInitOk(grid, size) ==
    /\ Len(grid) = size
    /\ \A r \in 1..Len(grid) : Len(grid[r]) = size

\* BingoCard(grid=..., size=..., has_free_square=..., seed=...)
BingoCard(grid, size, has_free_square, seed) ==
    IF PostInitOk(grid, size)
    THEN [kind |-> "card", grid |-> grid, size |-> size,
          has_free_square |-> has_free_square, seed |-> seed]
    ELSE [kind |-> "ValueError", msg |-> "Grid must have size rows and columns"]

----------------------------------------------------------------------------
(* random.Random(seed) and Random.shuffle.  The Mersenne Twister is        *)
(* replaced by a 16-bit linear congruential generator: what the generator  *)
(* code relies on is that the stream is a function of the seed alone, that *)
(* an int seed is used by absolute value, and that an absent seed draws    *)
(* from the operating system's entropy.                                    *)

Abs(n) == IF n < 0 THEN 0 - n ELSE n

RngStep(st) == (st * 25173 + 13849) % 65536

RandBelow(st, n) == (st \div 256) % n

\* mutant: the seed is ignored, every generator is seeded from entropy
NewRandomUnseeded(seed, entropy) == RngStep(40000 + entropy)

\* rnd = random.Random(seed)
NewRandom(seed, entropy) ==
    IF seed.given THEN RngStep(Abs(seed.val)) ELSE RngStep(40000 + entropy)

Swap(x, i, j) == [x EXCEPT ![i] = x[j], ![j] = x[i]]

\* mutant: x[i] = x[j] without the exchange (sampling with replacement)
RECURSIVE ShuffleOverwrite(_, _, _)
ShuffleOverwrite(x, i, st) ==
    IF i < 2 THEN x
    ELSE LET st2 == RngStep(st)
             j == RandBelow(st2, i) + 1
         IN ShuffleOverwrite([x EXCEPT ![i] = x[j]], i - 1, st2)

\* Random.shuffle(x): for i in reversed(range(1, len(x))): j = randbelow(i + 1);
\* x[i], x[j] = x[j], x[i].  Indices here are 1-based: i runs Len(x)..2.
RECURSIVE ShuffleFrom(_, _, _)
ShuffleFrom(x, i, st) ==
    IF i < 2 THEN x
    ELSE LET st2 == RngStep(st)
             j == RandBelow(st2, i) + 1
         IN ShuffleFrom(Swap(x, i, j), i - 1, st2)

----------------------------------------------------------------------------
(* bingo_generator.py *)

\* mutant: every cell of the main diagonal is taken for the centre
IsFreeCellDiagonal(grid_size, free_square, r, c) ==
    free_square /\ grid_size = 5 /\ r = c

\* free_square and grid_size == 5 and r == c == grid_size // 2  (r, c from 0)
IsFreeCell(grid_size, free_square, r, c) ==
    free_square /\ grid_size = 5 /\ r = c /\ c = grid_size \div 2

\* needed = grid_size**2 - (1 if free_square and grid_size == 5 else 0)
Needed(grid_size, free_square) ==
    grid_size * grid_size - (IF free_square /\ grid_size = 5 THEN 1 ELSE 0)

\* shuffled[:needed]
Prefix(seq, n) ==
    IF n <= 0 THEN << >> ELSE SubSeq(seq, 1, IF n < Len(seq) THEN n ELSE Len(seq))

\* mutant: the centre cell is skipped instead of being given the marker
RECURSIVE FillRowSkipFree(_, _, _, _, _, _)
FillRowSkipFree(cells, grid_size, free_square, r, c, acc) ==
    IF c = grid_size \/ ~acc.ok THEN acc
    ELSE IF IsFreeCell(grid_size, free_square, r, c)
    THEN FillRowSkipFree(cells, grid_size, free_square, r, c + 1, acc)
    ELSE IF acc.idx >= Len(cells)
    THEN [acc EXCEPT !.ok = FALSE]
    ELSE FillRowSkipFree(cells, grid_size, free_square, r, c + 1,
                 [acc EXCEPT !.row = Append(@, cells[acc.idx + 1]), !.idx = @ + 1])

\* The inner loop of _build_grid: for c in range(grid_size).  acc carries the
\* row built so far, idx, and ok = FALSE once cells[idx] raised IndexError.
RECURSIVE FillRow(_, _, _, _, _, _)
FillRow(cells, grid_size, free_square, r, c, acc) ==
    IF c = grid_size \/ ~acc.ok THEN acc
    ELSE IF IsFreeCell(grid_size, free_square, r, c)
    THEN FillRow(cells, grid_size, free_square, r, c + 1,
                 [acc EXCEPT !.row = Append(@, FREE)])
    ELSE IF acc.idx >= Len(cells)
    THEN [acc EXCEPT !.ok = FALSE]
    ELSE FillRow(cells, grid_size, free_square, r, c + 1,
                 [acc EXCEPT !.row = Append(@, cells[acc.idx + 1]), !.idx = @ + 1])

\* grid.append(row)
AppendRow(acc, row) ==
    [grid |-> Append(acc.grid, row.row), idx |-> row.idx, ok |-> row.ok]

\* The outer loop of _build_grid: for r in range(grid_size).
RECURSIVE FillGrid(_, _, _, _, _)
FillGrid(cells, grid_size, free_square, r, acc) ==
    IF r = grid_size \/ ~acc.ok THEN acc
    ELSE FillGrid(cells, grid_size, free_square, r + 1,
                  AppendRow(acc, FillRow(cells, grid_size, free_square, r, 0,
                                         [row |-> << >>, idx |-> acc.idx, ok |-> TRUE])))

\* shuffled = self.species_pool.copy(); rnd.shuffle(shuffled)
Shuffled(pool, seed, entropy) ==
    ShuffleFrom(pool, Len(pool), NewRandom(seed, entropy))

\* mutant: rnd.shuffle(self.species_pool), the pool itself is shuffled
PoolAfterShuffleInPlace(pool, seed, entropy) == Shuffled(pool, seed, entropy)

\* self.species_pool after shuffled = self.species_pool.copy(); rnd.shuffle(shuffled)
PoolAfterShuffle(pool, seed, entropy) == pool

\* BingoGenerator._build_grid: the grid, or IndexError from cells[idx]
GridOrError(filled) ==
    IF filled.ok THEN [kind |-> "grid", grid |-> filled.grid]
    ELSE [kind |-> "IndexError"]

BuildGrid(pool, grid_size, free_square, seed, entropy) ==
    GridOrError(FillGrid(Prefix(Shuffled(pool, seed, entropy),
                                Needed(grid_size, free_square)),
                         grid_size, free_square, 0,
                         [grid |-> << >>, idx |-> 0, ok |-> TRUE]))

\* if grid_size**2 > len(self.species_pool) + (1 if free_square else 0): raise
CapacityError(pool, grid_size, free_square) ==
    grid_size * grid_size > Len(pool) + (IF free_square THEN 1 ELSE 0)

\* self.species_pool after generate_card
PoolAfterCard(pool, grid_size, free_square, seed, entropy) ==
    IF CapacityError(pool, grid_size, free_square) THEN pool
    ELSE PoolAfterShuffle(pool, seed, entropy)

\* return BingoCard(grid=grid, ...), unless _build_grid raised
CardOrError(built, grid_size, free_square, seed) ==
    IF built.kind = "IndexError" THEN [kind |-> "IndexError"]
    ELSE BingoCard(built.grid, grid_size, free_square, seed)

\* BingoGenerator.generate_card: a card, or the exception raised
GenerateCard(pool, grid_size, free_square, seed, entropy) ==
    IF CapacityError(pool, grid_size, free_square)
    THEN [kind |-> "ValueError",
          msg |-> "Not enough species to fill the requested card size"]
    ELSE CardOrError(BuildGrid(pool, grid_size, free_square, seed, entropy),
                     grid_size, free_square, seed)

\* mutant: base_seed + i if base_seed else None (a base seed of 0 taken for absent)
CardSeedFalsy(base_seed, i) ==
    IF base_seed.given /\ base_seed.val # 0 THEN IntSeed(base_seed.val + i) ELSE NoSeed

\* card_seed = base_seed + i if base_seed is not None else None
CardSeed(base_seed, i) ==
    IF base_seed.given THEN IntSeed(base_seed.val + i) ELSE NoSeed

\* The loop of generate_cards: for i in range(num_cards).  entropies[i + 1] is
\* the entropy an unseeded Random() draws in iteration i.  An exception of
\* generate_card leaves the loop and the method.
RECURSIVE GenerateCardsFrom(_, _, _, _, _, _, _, _)
CardsStep(card, after, num_cards, grid_size, free_square, base_seed, entropies, i, cards) ==
    IF card.kind # "card" THEN [out |-> card, pool |-> after]
    ELSE GenerateCardsFrom(after, num_cards, grid_size, free_square, base_seed,
                           entropies, i + 1, Append(cards, card))

GenerateCardsFrom(pool, num_cards, grid_size, free_square, base_seed, entropies, i, cards) ==
    IF i >= num_cards THEN [out |-> [kind |-> "cards", cards |-> cards], pool |-> pool]
    ELSE CardsStep(GenerateCard(pool, grid_size, free_square,
                                CardSeed(base_seed, i), entropies[i + 1]),
                   PoolAfterCard(pool, grid_size, free_square,
                                 CardSeed(base_seed, i), entropies[i + 1]),
                   num_cards, grid_size, free_square, base_seed, entropies, i, cards)

\* BingoGenerator.generate_cards: out is the list of cards or the exception,
\* pool is self.species_pool after the call
GenerateCards(pool, num_cards, grid_size, free_square, base_seed, entropies) ==
    GenerateCardsFrom(pool, num_cards, grid_size, free_square, base_seed,
                      entropies, 0, << >>)

----------------------------------------------------------------------------
(* The generator as a state machine: a generator constructed over some     *)
(* pool, then any sequence of generate_card and generate_cards calls.      *)

Sp(i) == Species(i, "common", "scientific", "url")

\* pools of pairwise distinct species, and pools in which species repeat
DistinctPool(p) == [i \in 1..p |-> Sp(i)]
PairedPool(p) == [i \in 1..p |-> Sp((i + 1) \div 2)]

\* pool sizes at and around the capacity of every grid size
PoolSizes(max_grid) ==
    {n \in UNION {{g * g - 2, g * g - 1, g * g} : g \in 1..max_grid} : n >= 0}

Pools(max_grid) ==
    {DistinctPool(p) : p \in PoolSizes(max_grid)}
        \cup {PairedPool(g * g) : g \in 2..3}

\* base seeds: negative, zero, positive, absent; card seeds reach base + i
BaseSeeds == {NoSeed} \cup {IntSeed(n) : n \in (0 - 1)..1}
CardSeeds == {NoSeed} \cup {IntSeed(n) : n \in (0 - 1)..MaxCards}

\* what an unseeded Random() draws from the operating system, and the draws of
\* the successive unseeded generators of one generate_cards call
Entropies == {0, 1}
EntropyRuns == {[i \in 1..MaxCards + 1 |-> (a + b * i) % 2] : a, b \in Entropies}

NoCall == [op |-> "none"]
NoResult == [kind |-> "none"]

\* the state of a component that takes no part in a specification
GenIdle ==
    /\ species_pool = << >>
    /\ pool0 = << >>
    /\ call = NoCall
    /\ result = NoResult
    /\ ref = NoResult

RowsIdle ==
    /\ rcard = NoResult
    /\ toggles = NoCall
    /\ row_heights = NoResult

FetchIdle ==
    /\ upstream = NoResult
    /\ top_n = 0
    /\ fetched = NoResult

RenderIdle ==
    /\ rcards = NoResult
    /\ photos = NoResult
    /\ rendered = NoResult

CacheIdle ==
    /\ api = NoResult
    /\ cache = {}
    /\ clock = 0
    /\ fetch_log = NoCall

AppIdle ==
    /\ form = NoCall
    /\ pc = "idle"
    /\ place_id = NoResult
    /\ app_pool = NoResult
    /\ ui_out = << >>

ShellIdle == RenderIdle /\ CacheIdle /\ AppIdle

InitGen ==
    /\ ShellIdle
    /\ RowsIdle
    /\ FetchIdle
    /\ species_pool \in Pools(MaxGrid)
    /\ pool0 = species_pool
    /\ call = NoCall
    /\ result = NoResult
    /\ ref = NoResult

Idle == call = NoCall /\ result = NoResult
Pending(op) == call.op = op /\ result = NoResult
Done == result # NoResult

\* the caller invokes generator.generate_card(grid_size, free_square, seed),
\* grid_size drawn from 1..max_grid
InvokeGenerateCard(max_grid) ==
    /\ Idle
    /\ \E grid_size \in 1..max_grid, free_square \in BOOLEAN, seed \in CardSeeds :
        call' = [op |-> "generate_card", grid_size |-> grid_size,
                 free_square |-> free_square, seed |-> seed, num_cards |-> 1]
    /\ UNCHANGED <<species_pool, pool0, result, ref>>

\* the caller invokes generator.generate_cards(num_cards, grid_size,
\* free_square, base_seed)
InvokeGenerateCards(max_grid) ==
    /\ Idle
    /\ \E num_cards \in 0..MaxCards, grid_size \in 1..max_grid,
          free_square \in BOOLEAN, base_seed \in BaseSeeds :
        call' = [op |-> "generate_cards", grid_size |-> grid_size,
                 free_square |-> free_square, seed |-> base_seed,
                 num_cards |-> num_cards]
    /\ UNCHANGED <<species_pool, pool0, result, ref>>

\* BingoGenerator.generate_card runs and returns or raises; with keep_ref the
\* call and its result may be recorded in ref
RunGenerateCard(keep_ref) ==
    /\ Pending("generate_card")
    /\ \E entropy \in Entropies :
        /\ result' = GenerateCard(species_pool, call.grid_size, call.free_square,
                                  call.seed, entropy)
        /\ species_pool' = PoolAfterCard(species_pool, call.grid_size,
                                         call.free_square, call.seed, entropy)
    /\ ref' \in IF keep_ref /\ call.seed.given
                THEN {ref, [kind |-> "call", call |-> call, result |-> result']}
                ELSE {ref}
    /\ UNCHANGED <<pool0, call>>

\* the list or the exception reaches the caller, the pool stays with the generator
Returned(res) ==
    /\ result' = res.out
    /\ species_pool' = res.pool

\* BingoGenerator.generate_cards runs and returns or raises
RunGenerateCards ==
    /\ Pending("generate_cards")
    /\ \E entropies \in EntropyRuns :
        Returned(GenerateCards(species_pool, call.num_cards, call.grid_size,
                               call.free_square, call.seed, entropies))
    /\ UNCHANGED <<pool0, call, ref>>

\* the caller lets go of the result
Discard ==
    /\ Done
    /\ call' = NoCall
    /\ result' = NoResult
    /\ UNCHANGED <<species_pool, pool0, ref>>

NextGen ==
    (\/ InvokeGenerateCard(MaxGrid)
     \/ InvokeGenerateCards(MaxGrid)
     \/ RunGenerateCard(FALSE)
     \/ RunGenerateCards
     \/ Discard)
        /\ UNCHANGED <<rowVars, fetchVars, shellVars>>

\* the generator over a pool that fills every compared grid size, its single
\* calls recorded for comparison with later calls
InitDet ==
    /\ ShellIdle
    /\ RowsIdle
    /\ FetchIdle
    /\ species_pool \in {DistinctPool(MaxDetGrid * MaxDetGrid),
                         PairedPool(MaxDetGrid * MaxDetGrid + 1)}
    /\ pool0 = species_pool
    /\ call = NoCall
    /\ result = NoResult
    /\ ref = NoResult

NextDet ==
    (\/ InvokeGenerateCard(MaxDetGrid)
     \/ InvokeGenerateCards(MaxDetGrid)
     \/ RunGenerateCard(TRUE)
     \/ RunGenerateCards
     \/ Discard)
        /\ UNCHANGED <<rowVars, fetchVars, shellVars>>

SpecGen == InitGen /\ [][NextGen]_vars

SpecDet == InitDet /\ [][NextDet]_vars

----------------------------------------------------------------------------
(* Properties of the card generator, checked under SpecGen. *)

\* the cards a call returned: one for generate_card, the list for generate_cards
ReturnedCards ==
    IF result.kind = "card" THEN <<result>>
    ELSE IF result.kind = "cards" THEN result.cards
    ELSE << >>

Cells(grid) == {<<r, c>> : r \in 1..Len(grid), c \in 1..MaxGrid + 1} \cap
               {rc \in (1..Len(grid)) \X (1..MaxGrid + 1) : rc[2] <= Len(grid[rc[1]])}

FreeCells(grid) == {rc \in Cells(grid) : grid[rc[1]][rc[2]] = FREE}
SpeciesCells(grid) == {rc \in Cells(grid) : IsSpecies(grid[rc[1]][rc[2]])}

PoolSet(pool) == {pool[i] : i \in 1..Len(pool)}
PairwiseDistinct(pool) ==
    \A i, j \in 1..Len(pool) : i # j => pool[i] # pool[j]

\* C1: every card a generator call returns has exactly grid_size rows of
\* exactly grid_size cells and declares size = grid_size; the grids
\* _build_grid returns are never rejected by BingoCard's validation.
C1_GridShape ==
    /\ \A k \in 1..Len(ReturnedCards) :
        LET card == ReturnedCards[k]
        IN /\ Len(card.grid) = call.grid_size
           /\ \A r \in 1..Len(card.grid) : Len(card.grid[r]) = call.grid_size
           /\ card.size = call.grid_size
    /\ ~(result.kind = "ValueError"
         /\ result.msg = "Grid must have size rows and columns")

C1_Witness ==
    /\ call.op = "generate_card"
    /\ result.kind = "card"
    /\ call.grid_size = 5
    /\ call.free_square
    /\ Len(result.grid) = 5

\* The centre of the grid is the free marker, the marker is nowhere else, and
\* every other cell is a species.
CentreFreeOnly(grid, grid_size) ==
    LET mid == grid_size \div 2 + 1
    IN /\ FreeCells(grid) = {<<mid, mid>>}
       /\ Cardinality(SpeciesCells(grid)) = grid_size * grid_size - 1

\* C2 as stated: for every odd grid_size and every pool large enough (here:
\* enough to fill the grid even without a free cell), generate_card with the
\* free flag returns a grid with the marker at the centre and nowhere else.
C2_OddFreeCentre ==
    (/\ Done
     /\ call.op = "generate_card"
     /\ call.free_square
     /\ call.grid_size % 2 = 1
     /\ Len(pool0) >= call.grid_size * call.grid_size)
    => /\ result.kind = "card"
       /\ CentreFreeOnly(result.grid, call.grid_size)

\* C2 amended: for grid_size = 5 and every pool of at least 24 species,
\* generate_card with the free flag returns a grid whose cell (2, 2) is the
\* free marker, which appears exactly once, the other 24 cells being
\* species; for every other grid_size no returned grid holds the marker.
C2_FiveFreeCentre ==
    /\ (/\ Done
        /\ call.op = "generate_card"
        /\ call.free_square
        /\ call.grid_size = 5
        /\ Len(pool0) >= 24)
       => /\ result.kind = "card"
          /\ CentreFreeOnly(result.grid, 5)
          /\ result.grid[3][3] = FREE
    /\ (call.op = "generate_card" /\ result.kind = "card" /\ call.grid_size # 5)
       => FreeCells(result.grid) = {}

C2_Witness ==
    /\ call.op = "generate_card"
    /\ call.free_square
    /\ call.grid_size = 5
    /\ Len(pool0) = 24
    /\ result.kind = "card"
    /\ result.grid[3][3] = FREE

\* what the specification requires of the pool
Required(grid_size, free_square) ==
    grid_size * grid_size - (IF free_square /\ grid_size % 2 = 1 THEN 1 ELSE 0)

IsCapacityError(res) ==
    /\ res.kind = "ValueError"
    /\ res.msg = "Not enough species to fill the requested card size"

\* C3: generate_card returns a card whenever the pool holds at least
\* grid_size^2 - (1 if free and grid_size odd else 0) species, and fails with
\* the capacity error below that; no other failure occurs.
C3_CapacityExact ==
    (Done /\ call.op = "generate_card") =>
        IF Len(pool0) >= Required(call.grid_size, call.free_square)
        THEN result.kind = "card"
        ELSE IsCapacityError(result)

\* the grid of a card, or the exception
Outcome(res) == IF res.kind = "card" THEN [kind |-> "card", grid |-> res.grid] ELSE res

\* C4: for even grid_size the call with free_square = True has the outcome of
\* the call with free_square = False: the same grid without a marker, or the
\* same capacity error.
C4_EvenFlagNoEffect ==
    (/\ Done
     /\ call.op = "generate_card"
     /\ call.free_square
     /\ call.seed.given
     /\ call.grid_size % 2 = 0)
    => /\ Outcome(result) =
            Outcome(GenerateCard(pool0, call.grid_size, FALSE, call.seed, 0))
       /\ result.kind = "card" \/ IsCapacityError(result)
       /\ result.kind = "card" => FreeCells(result.grid) = {}

\* C5: with a pool of pairwise distinct species, no two cells of a returned
\* grid hold the same species, every species cell is a member of the pool,
\* and the pool is left as it was.
C5_UniqueFromPool ==
    /\ species_pool = pool0
    /\ PairwiseDistinct(pool0) =>
        \A k \in 1..Len(ReturnedCards) :
            LET grid == ReturnedCards[k].grid
            IN /\ \A a, b \in SpeciesCells(grid) :
                    a # b => grid[a[1]][a[2]] # grid[b[1]][b[2]]
               /\ \A a \in SpeciesCells(grid) : grid[a[1]][a[2]] \in PoolSet(pool0)
               /\ Cells(grid) = SpeciesCells(grid) \cup FreeCells(grid)

C5_Witness ==
    /\ PairwiseDistinct(pool0)
    /\ Len(pool0) >= 9
    /\ call.op = "generate_card"
    /\ call.grid_size = 3
    /\ result.kind = "card"
    /\ result.grid # <<SubSeq(pool0, 1, 3), SubSeq(pool0, 4, 6), SubSeq(pool0, 7, 9)>>

\* C6: a generate_card call with an integer seed has the result of every
\* earlier call with the same grid_size, free flag and seed on the same pool,
\* whatever calls were made in between.
C6_Deterministic ==
    (/\ Done
     /\ call.op = "generate_card"
     /\ ref.kind = "call"
     /\ ref.call = call)
    => result = ref.result

C6_Witness ==
    /\ call.op = "generate_card"
    /\ ref.kind = "call"
    /\ ref.call = call
    /\ call.seed.given
    /\ result.kind = "card"
    /\ call.grid_size >= 3
    /\ result = ref.result

\* C7: generate_cards(K, N, free, S) with an integer S returns exactly K
\* cards, the i-th (from 0) recording seed S + i and being the card a single
\* generate_card(N, free, S + i) returned on the same pool.
C7_BatchIsSingles ==
    (call.op = "generate_cards" /\ call.seed.given /\ result.kind = "cards")
    => /\ Len(result.cards) = call.num_cards
       /\ \A i \in 0..(call.num_cards - 1) :
            /\ result.cards[i + 1].seed = IntSeed(call.seed.val + i)
            /\ (/\ ref.kind = "call"
                /\ ref.call.grid_size = call.grid_size
                /\ ref.call.free_square = call.free_square
                /\ ref.call.seed = IntSeed(call.seed.val + i))
               => result.cards[i + 1] = ref.result

C7_Witness ==
    /\ call.op = "generate_cards"
    /\ call.seed = IntSeed(0)
    /\ call.num_cards = 2
    /\ call.grid_size >= 3
    /\ result.kind = "cards"
    /\ ref.kind = "call"
    /\ ref.call.grid_size = call.grid_size
    /\ ref.call.free_square = call.free_square
    /\ ref.call.seed = IntSeed(1)
    /\ result.cards[2] = ref.result

----------------------------------------------------------------------------
(* config.py, in tenths of a point *)

Inch == 720

PAGE_HEIGHT == 11 * Inch
TOP_BOTTOM_MARGIN == 1 * Inch
USABLE_HEIGHT == PAGE_HEIGHT - (2 * TOP_BOTTOM_MARGIN) - (5 * Inch) \div 10

Scaling(cell_tenths, photo_tenths, padding_pt, text_pt) ==
    [cell_size |-> (cell_tenths * Inch) \div 10,
     photo_size |-> (photo_tenths * Inch) \div 10,
     padding |-> padding_pt * 10,
     text_size |-> text_pt * 10]

GRID_SCALING ==
    (3 :> Scaling(23, 18, 4, 10)) @@ (5 :> Scaling(14, 11, 3, 8)) @@
    (7 :> Scaling(10, 8, 2, 7)) @@ (9 :> Scaling(8, 6, 1, 6))

\* GRID_SCALING.get(grid_size, GRID_SCALING[5])
ScalingFor(grid_size) ==
    IF grid_size \in DOMAIN GRID_SCALING THEN GRID_SCALING[grid_size]
    ELSE GRID_SCALING[5]

----------------------------------------------------------------------------
(* pdf_renderer.py: _calculate_text_height and                             *)
(* _calculate_dynamic_row_heights.  Paragraph.wrap is modelled by an       *)
(* average glyph width of half the font size: a name of n characters set   *)
(* in text_size takes ceil(n * text_size / 2 / width) lines, and the       *)
(* paragraph is as high as its lines times the leading, text_size + 1 pt.  *)

\* the names of the model and their lengths in characters
NameChars(name) ==
    CASE name = "" -> 0
      [] name = "Robin" -> 5
      [] name = "common" -> 6
      [] name = "scientific" -> 10
      [] name = "Turdus migratorius" -> 18
      [] name = "Black-crowned Night Heron" -> 25
      [] name = "Nycticorax nycticorax hoactli" -> 29
      [] name = "Northern Rough-winged Swallow of the eastern riparian woodlands" -> 63
      [] OTHER -> 12

\* the lines one name part takes in a paragraph of the given width
WrappedLines(name, text_size, width) ==
    (NameChars(name) * (text_size \div 2) + width - 1) \div width

\* the name parts _calculate_text_height joins with <br/>
NameParts(species, common_on, sci_on) ==
    (IF common_on /\ species.common_name # "" THEN <<species.common_name>> ELSE << >>)
    \o (IF sci_on /\ species.scientific_name # "" THEN <<species.scientific_name>> ELSE << >>)

RECURSIVE SumLines(_, _, _)
SumLines(parts, text_size, width) ==
    IF parts = << >> THEN 0
    ELSE WrappedLines(Head(parts), text_size, width)
         + SumLines(Tail(parts), text_size, width)

\* PDFRenderer._calculate_text_height
CalculateTextHeight(species, common_on, sci_on, text_size, cell_width) ==
    IF ~(common_on \/ sci_on) THEN 0
    ELSE IF NameParts(species, common_on, sci_on) = << >> THEN 0
    ELSE SumLines(NameParts(species, common_on, sci_on), text_size, cell_width)
         * (text_size + 10)

Max(a, b) == IF a > b THEN a ELSE b

\* total_height of one species cell (lines 197-202)
CellHeight(text_height, photo_on, scaling) ==
    scaling.photo_size + text_height + (2 * scaling.padding)
    + (IF photo_on /\ text_height > 0 THEN 40 ELSE 0)

\* the loop over the cells of one row (lines 189-204)
RECURSIVE MaxHeightInRow(_, _, _, _, _)
MaxHeightInRow(row, c, tg, scaling, max_height_in_row) ==
    IF c > Len(row) THEN max_height_in_row
    ELSE IF row[c] = FREE
    THEN MaxHeightInRow(row, c + 1, tg, scaling, max_height_in_row)
    ELSE IF IsSpecies(row[c])
    THEN MaxHeightInRow(row, c + 1, tg, scaling,
             Max(max_height_in_row,
                 CellHeight(CalculateTextHeight(row[c], tg.common_on, tg.sci_on,
                                                scaling.text_size,
                                                scaling.cell_size - (2 * scaling.padding)),
                            tg.photo_on, scaling)))
    ELSE MaxHeightInRow(row, c + 1, tg, scaling, max_height_in_row)

\* the row heights before scaling (lines 186-206)
UnscaledRowHeights(card, tg, grid_size) ==
    [r \in 1..Len(card.grid) |->
        MaxHeightInRow(card.grid[r], 1, tg, ScalingFor(grid_size),
                       ScalingFor(grid_size).cell_size)]

RECURSIVE Sum(_)
Sum(seq) == IF seq = << >> THEN 0 ELSE Head(seq) + Sum(Tail(seq))

\* available_height = USABLE_HEIGHT - title_space, title_space = 0.7 * inch
AvailableHeight == USABLE_HEIGHT - (7 * Inch) \div 10

\* mutant: the quotient taken the wrong way round
ScaleFactorInverted(available_height, total_height) ==
    [num |-> total_height, den |-> available_height]

\* scale_factor = available_height / total_height, as an exact fraction
ScaleFactor(available_height, total_height) ==
    [num |-> available_height, den |-> total_height]

\* h * scale_factor
Times(h, factor) == [num |-> h * factor.num, den |-> factor.den]

\* lines 208-218: the heights as fractions, den = 1 where nothing was scaled
ScaleToFit(heights, total_height) ==
    IF total_height > AvailableHeight
    THEN [r \in 1..Len(heights) |->
             Times(heights[r], ScaleFactor(AvailableHeight, total_height))]
    ELSE [r \in 1..Len(heights) |-> [num |-> heights[r], den |-> 1]]

ScaleRows(heights) == ScaleToFit(heights, Sum(heights))

\* PDFRenderer._calculate_dynamic_row_heights
CalculateDynamicRowHeights(card, tg, grid_size) ==
    ScaleRows(UnscaledRowHeights(card, tg, grid_size))

----------------------------------------------------------------------------
(* The row-height computation as a state machine: a card generated from a  *)
(* pool of species with short, long or missing names, and the display      *)
(* toggles; then one call of _calculate_dynamic_row_heights.               *)

ShortSpecies(i) == Species(i, "Robin", "Turdus migratorius", "url")
LongSpecies(i) ==
    Species(i, "Black-crowned Night Heron", "Nycticorax nycticorax hoactli", "url")
HugeSpecies(i) ==
    Species(i, "Northern Rough-winged Swallow of the eastern riparian woodlands",
            "Nycticorax nycticorax hoactli", "url")
UnnamedSpecies(i) == Species(i, "", "Turdus migratorius", "url")

NamedPool(p, kind) ==
    [i \in 1..p |->
        CASE kind = "short" -> ShortSpecies(i)
          [] kind = "long" -> LongSpecies(i)
          [] kind = "huge" -> HugeSpecies(i)
          [] kind = "mixed" -> IF i % 4 = 0 THEN HugeSpecies(i)
                               ELSE IF i % 4 = 1 THEN UnnamedSpecies(i)
                               ELSE ShortSpecies(i)
          [] OTHER -> IF i % 7 = 0 THEN LongSpecies(i) ELSE ShortSpecies(i)]

PoolKinds == {"short", "long", "huge", "mixed", "sparse"}

\* a card whose grid holds the pool in its own order (one possible shuffle)
OrderedCard(pool, n) ==
    BingoCard(FillGrid(pool, n, FALSE, 0, [grid |-> << >>, idx |-> 0, ok |-> TRUE]).grid,
              n, FALSE, NoSeed)

\* the cards rendered: generated ones of every size up to MaxGrid, and cards
\* of the larger sizes of GRID_SCALING
RenderCards ==
    {GenerateCard(NamedPool(n * n, kind), n, free, IntSeed(seed), 0) :
        n \in 1..MaxGrid, kind \in PoolKinds, free \in BOOLEAN, seed \in 0..1}
    \cup {OrderedCard(NamedPool(n * n, kind), n) : n \in {7, 9}, kind \in PoolKinds}

Toggles == [photo_on : BOOLEAN, common_on : BOOLEAN, sci_on : BOOLEAN]

InitRows ==
    /\ ShellIdle
    /\ GenIdle
    /\ FetchIdle
    /\ rcard \in RenderCards
    /\ toggles \in Toggles
    /\ row_heights = NoResult

\* row_heights = self._calculate_dynamic_row_heights(card, photo_on, common_on,
\* sci_on, card.size)
CallCalculateRowHeights ==
    /\ row_heights = NoResult
    /\ row_heights' = [kind |-> "heights",
                       rows |-> CalculateDynamicRowHeights(rcard, toggles, rcard.size)]
    /\ UNCHANGED <<rcard, toggles>>

NextRows == CallCalculateRowHeights /\ UNCHANGED <<genVars, fetchVars, shellVars>>

SpecRows == InitRows /\ [][NextRows]_vars

----------------------------------------------------------------------------
(* Properties of the row heights, checked under SpecRows. *)

RowsDone == row_heights # NoResult

\* the sum of the unscaled row heights of the card in hand
RawHeights == UnscaledRowHeights(rcard, toggles, rcard.size)
RawTotal == Sum(RawHeights)

\* the rows are the unscaled heights times one common factor num/den
UniformlyScaled(rows, raw) ==
    \A r \in 1..Len(rows) :
        /\ rows[r].den = rows[1].den
        /\ rows[r].num = raw[r] * (rows[1].num \div raw[1])

\* the rows sum to exactly the height
SumsTo(rows, height) ==
    Sum([r \in 1..Len(rows) |-> rows[r].num]) = height * rows[1].den

Unchanged(rows, raw) ==
    \A r \in 1..Len(rows) : rows[r] = [num |-> raw[r], den |-> 1]

\* the claim's rule with a given limit: above the limit every row is scaled
\* by one factor and the rows sum to the limit, otherwise nothing changes
FitsRule(limit) ==
    RowsDone =>
        /\ Len(row_heights.rows) = Len(RawHeights)
        /\ IF RawTotal > limit
           THEN /\ UniformlyScaled(row_heights.rows, RawHeights)
                /\ SumsTo(row_heights.rows, limit)
           ELSE Unchanged(row_heights.rows, RawHeights)

\* C8 as stated: the limit is the usable page height of config.py, page
\* height minus margins minus title allowance (USABLE_HEIGHT, 8.5 inches).
C8_ScaleToUsableHeight == FitsRule(PAGE_HEIGHT - (2 * TOP_BOTTOM_MARGIN) - 360)

\* C8 amended: the limit is USABLE_HEIGHT less a further title space of 0.7
\* inch (7.8 inches, 561.6 pt): above it every row height is multiplied by
\* the same factor and the new sum equals that limit; otherwise the row
\* heights are returned unchanged.
C8_ScaleToAvailableHeight == FitsRule(6120 - 504)

C8_Witness ==
    /\ RowsDone
    /\ RawTotal > 6120 - 504
    /\ RawTotal <= 6120
    /\ row_heights.rows[1].den = RawTotal
    /\ SumsTo(row_heights.rows, 5616)

----------------------------------------------------------------------------
(* inaturalist_client.py: fetch_top_species.  JSON values: a key that is   *)
(* missing is Absent, null is PyNone, numbers and strings are wrapped.     *)

Absent == [v |-> "absent"]
PyNone == [v |-> "None"]
JInt(n) == [v |-> "int", x |-> n]
JStr(t) == [v |-> "str", x |-> t]

\* dict.get(key): None for a missing key
Get(field) == IF field = Absent THEN PyNone ELSE field

\* dict.get(key, default)
GetOr(field, default) == IF field = Absent THEN default ELSE field

\* Python truth of a JSON value
Truthy(val) ==
    /\ val # PyNone
    /\ val # Absent
    /\ val.v = "int" => val.x # 0
    /\ val.v = "str" => val.x # ""

\* a or b
Or(a, b) == IF Truthy(a) THEN a ELSE b

\* config.ALLOWED_LICENSES
ALLOWED_LICENSES == {"cc0", "cc-by", "cc-by-nc", "cc-by-sa", "cc-by-nc-sa"}

\* config.SPECIES_RANK_LEVELS = set(range(10, 16))
SPECIES_RANK_LEVELS == 10..15

\* str.lower() on the license codes of the model
Lower(t) ==
    CASE t = "CC-BY-NC" -> "cc-by-nc"
      [] t = "CC0" -> "cc0"
      [] t = "CC-BY-ND" -> "cc-by-nd"
      [] OTHER -> t

\* "taxon" not in result or result["taxon"] is None
NoTaxon(rec) == rec.taxon = Absent \/ rec.taxon = PyNone

\* not rank_level or rank_level not in SPECIES_RANK_LEVELS
RankRejected(taxon_data) ==
    \/ ~Truthy(Get(taxon_data.rank_level))
    \/ Get(taxon_data.rank_level).x \notin SPECIES_RANK_LEVELS

\* default_photo = taxon_data.get("default_photo") or {}
EmptyDict ==
    [v |-> "dict", license_code |-> Absent, square_url |-> Absent, medium_url |-> Absent]

DefaultPhoto(taxon_data) == Or(Get(taxon_data.default_photo), EmptyDict)

\* mutant: the license code is compared as it came
LicenseRejectedCaseSensitive(license_code) ==
    Truthy(license_code) /\ license_code.x \notin ALLOWED_LICENSES

\* license_code and license_code.lower() not in ALLOWED_LICENSES
LicenseRejected(license_code) ==
    Truthy(license_code) /\ Lower(license_code.x) \notin ALLOWED_LICENSES

\* Species(taxon_id=taxon_data["id"], ...), for a taxon that has an id
MakeSpecies(taxon_data) ==
    Species(taxon_data.id.x,
            Or(Get(taxon_data.preferred_common_name), JStr("")).x,
            Or(Get(taxon_data.name), JStr("")).x,
            Or(Get(DefaultPhoto(taxon_data).square_url),
               GetOr(DefaultPhoto(taxon_data).medium_url, JStr(""))).x)

\* The loop of fetch_top_species over results[i..], species collected so far.
\* taxon_data["id"] raises KeyError for a taxon without an id.
RECURSIVE FetchLoop(_, _, _, _)
FetchLoop(results, i, species, n) ==
    IF i > Len(results) THEN [kind |-> "species", species |-> species]
    ELSE IF Len(species) >= n THEN [kind |-> "species", species |-> species]
    ELSE IF NoTaxon(results[i]) THEN FetchLoop(results, i + 1, species, n)
    ELSE IF RankRejected(results[i].taxon) THEN FetchLoop(results, i + 1, species, n)
    ELSE IF LicenseRejected(Get(DefaultPhoto(results[i].taxon).license_code))
    THEN FetchLoop(results, i + 1, species, n)
    ELSE IF results[i].taxon.id = Absent THEN [kind |-> "KeyError", key |-> "id"]
    ELSE FetchLoop(results, i + 1, Append(species, MakeSpecies(results[i].taxon)), n)

\* return species[:top_n]
TopSlice(looped, n) ==
    IF looped.kind = "species"
    THEN [kind |-> "species", species |-> Prefix(looped.species, n)]
    ELSE looped

\* INaturalistClient.fetch_top_species: requests.RequestException gives []
FetchTopSpecies(response, n) ==
    IF response.status = "error" THEN [kind |-> "species", species |-> << >>]
    ELSE TopSlice(FetchLoop(response.results, 1, << >>, n), n)

----------------------------------------------------------------------------
(* The species source as a state machine: an upstream answer, then one     *)
(* call of fetch_top_species.                                              *)

Photo(license_code) ==
    [v |-> "dict", license_code |-> license_code, square_url |-> JStr("square"),
     medium_url |-> JStr("medium")]

Taxon(id, rank_level, default_photo) ==
    [v |-> "dict", id |-> id, rank_level |-> rank_level,
     default_photo |-> default_photo,
     preferred_common_name |-> JStr("Robin"), name |-> JStr("Turdus migratorius")]

\* the records upstream may answer with
UpstreamRecords ==
    {[taxon |-> Absent],
     [taxon |-> PyNone],
     [taxon |-> Taxon(JInt(1), Absent, Photo(JStr("cc-by")))],
     [taxon |-> Taxon(JInt(2), JInt(20), Photo(JStr("cc-by")))],
     [taxon |-> Taxon(JInt(8), JInt(5), Photo(JStr("cc0")))],
     [taxon |-> Taxon(JInt(3), JInt(10), Photo(JStr("cc-by")))],
     [taxon |-> Taxon(JInt(4), JInt(15), Photo(JStr("CC-BY-NC")))],
     [taxon |-> Taxon(JInt(5), JInt(10), PyNone)],
     [taxon |-> Taxon(JInt(3), JInt(12), Photo(PyNone))],
     [taxon |-> Taxon(JInt(6), JInt(10), Photo(JStr("cc-by-nd")))],
     [taxon |-> Taxon(Absent, JInt(10), Photo(JStr("cc0")))]}

Responses ==
    {[status |-> "error"]} \cup
    {[status |-> "ok", results |-> rs] :
        rs \in UNION {[1..len -> UpstreamRecords] : len \in 0..MaxResults}}

InitFetch ==
    /\ ShellIdle
    /\ GenIdle
    /\ RowsIdle
    /\ upstream \in Responses
    /\ top_n \in 0..MaxTop
    /\ fetched = NoResult

\* client.fetch_top_species(place_id, top_n, selected_months)
CallFetchTopSpecies ==
    /\ fetched = NoResult
    /\ fetched' = FetchTopSpecies(upstream, top_n)
    /\ UNCHANGED <<upstream, top_n>>

NextFetch == CallFetchTopSpecies /\ UNCHANGED <<genVars, rowVars, shellVars>>

SpecFetch == InitFetch /\ [][NextFetch]_vars

----------------------------------------------------------------------------
(* Properties of the species source, checked under SpecFetch. *)

Min(a, b) == IF a < b THEN a ELSE b

\* the claim's filter: a taxon, a rank level in 10..15, and a photo license
\* that is absent or, lower-cased, in the allow-list
HasRankedTaxon(rec) ==
    /\ rec.taxon \notin {Absent, PyNone}
    /\ rec.taxon.rank_level \notin {Absent, PyNone}
    /\ rec.taxon.rank_level.x >= 10
    /\ rec.taxon.rank_level.x <= 15

LicenseOf(rec) ==
    IF rec.taxon.default_photo \in {Absent, PyNone} THEN PyNone
    ELSE Get(rec.taxon.default_photo.license_code)

Qualifies(rec) ==
    /\ HasRankedTaxon(rec)
    /\ \/ LicenseOf(rec) = PyNone
       \/ \E allowed \in ALLOWED_LICENSES : Lower(LicenseOf(rec).x) = allowed

\* the positions, in upstream order, of the records of a set of positions
KthOf(positions, k) ==
    CHOOSE i \in positions : Cardinality({j \in positions : j < i}) = k - 1

\* the returned list is the records at the first top_n of the positions
ReturnsFirstOf(positions) ==
    /\ fetched.kind = "species"
    /\ Len(fetched.species) = Min(top_n, Cardinality(positions))
    /\ \A k \in 1..Len(fetched.species) :
        /\ upstream.results[KthOf(positions, k)].taxon.id # Absent
        /\ fetched.species[k].taxon_id = upstream.results[KthOf(positions, k)].taxon.id.x

\* C9: whenever fetch_top_species returns, it returns at most top_n species,
\* each from a record of rank level 10..15 whose license is absent or allowed
\* (case-insensitively), and they are the first top_n such records in
\* upstream order; a failed query returns the empty list.
C9_FirstQualifying ==
    fetched.kind = "species" =>
        /\ Len(fetched.species) <= top_n
        /\ upstream.status = "error" => fetched.species = << >>
        /\ upstream.status = "ok" =>
            ReturnsFirstOf({i \in 1..Len(upstream.results) :
                                Qualifies(upstream.results[i])})

C9_Witness ==
    /\ fetched.kind = "species"
    /\ upstream.status = "ok"
    /\ Len(upstream.results) = 3
    /\ ~Qualifies(upstream.results[1])
    /\ Qualifies(upstream.results[2])
    /\ LicenseOf(upstream.results[2]) = JStr("CC-BY-NC")
    /\ Qualifies(upstream.results[3])
    /\ top_n = 1
    /\ Len(fetched.species) = 1
    /\ fetched.species[1].taxon_id = 4

\* C10: a record without a taxon, a rank level or a taxon id is skipped: the
\* call raises nothing and returns the first top_n records that qualify and
\* have an id.
C10_MalformedSkipped ==
    (fetched # NoResult /\ upstream.status = "ok") =>
        ReturnsFirstOf({i \in 1..Len(upstream.results) :
                            /\ Qualifies(upstream.results[i])
                            /\ upstream.results[i].taxon.id # Absent})

\* C11: the list fetch_top_species returns is deduplicated: no two returned
\* species have the same taxon identifier, whatever upstream answered.
C11_Deduplicated ==
    fetched.kind = "species" =>
        \A i, j \in 1..Len(fetched.species) :
            fetched.species[i].taxon_id = fetched.species[j].taxon_id => i = j

----------------------------------------------------------------------------
(* The row heights before scaling, checked under SpecRows. *)

\* the height the rule of C17 gives one species cell
RuleCellHeight(species, tg, scaling) ==
    LET text_height ==
            CalculateTextHeight(species, tg.common_on, tg.sci_on, scaling.text_size,
                                scaling.cell_size - (2 * scaling.padding))
    IN  IF tg.photo_on
        THEN scaling.photo_size + text_height + (2 * scaling.padding)
             + (IF text_height > 0 THEN 40 ELSE 0)
        ELSE text_height + (2 * scaling.padding)

\* the maximum of the rule over the species cells of a row
RECURSIVE RuleRowHeight(_, _, _, _)
RuleRowHeight(row, c, tg, scaling) ==
    IF c > Len(row) THEN 0
    ELSE IF IsSpecies(row[c])
    THEN Max(RuleCellHeight(row[c], tg, scaling), RuleRowHeight(row, c + 1, tg, scaling))
    ELSE RuleRowHeight(row, c + 1, tg, scaling)

\* C17: before scaling, the height of a row is the maximum over its species
\* cells of photo allotment + text height + padding + gap when photos are
\* shown, and of padding + text height when they are not; free cells add
\* nothing.  Checked on the cards whose rows are returned unscaled.
C17_RowHeightRule ==
    (RowsDone /\ RawTotal <= AvailableHeight) =>
        \A r \in 1..Len(row_heights.rows) :
            row_heights.rows[r] =
                [num |-> RuleRowHeight(rcard.grid[r], 1, toggles, ScalingFor(rcard.size)),
                 den |-> 1]

----------------------------------------------------------------------------
(* pdf_renderer.py: render_cards.  A flowable is a record; the document    *)
(* render_cards returns is the flowables handed to doc.build and the pages *)
(* they are laid out on, a new page starting at every PageBreak.           *)

MaxPhotos == 3      \* photo outcomes are chosen for MaxPhotos species and repeat

PhotoOutcomes == {"ok", "download_error", "timeout", "decode_error"}

\* what requests.get, process_image_for_bingo and Image end in for the photo
\* of a species
PhotoOf(species, outcomes) ==
    outcomes[((species.taxon_id - 1) % Len(outcomes)) + 1]

ImageFlowable(species, photo_size) ==
    [type |-> "Image", url |-> species.image_url, size |-> photo_size]

\* the try block without its handler: the exception leaves the method
CellPhotoUnguarded(species, photo_size, outcome) ==
    IF outcome = "ok" THEN <<ImageFlowable(species, photo_size)>>
    ELSE <<[type |-> "Raised", error |-> outcome]>>

\* lines 238-252: the photo is appended unless the download or the
\* processing raised, in which case the cell goes on without it
CellPhoto(species, photo_size, outcome) ==
    IF outcome = "ok" THEN <<ImageFlowable(species, photo_size)>>
    ELSE << >>

\* name_parts of _create_cell_content: the scientific name is set in italics
\* when common names are shown
CellNameParts(species, common_on, sci_on) ==
    (IF common_on /\ species.common_name # ""
     THEN <<[text |-> species.common_name, italic |-> FALSE]>> ELSE << >>)
    \o (IF sci_on /\ species.scientific_name # ""
        THEN <<[text |-> species.scientific_name, italic |-> common_on]>> ELSE << >>)

Paragraph(lines, style) == [type |-> "Paragraph", lines |-> lines, style |-> style]

\* the styles of the renderer: the sample stylesheet's Title, and the two
\* styles the renderer derives (lines 97-101, 268-276)
TitleStyle == [name |-> "Title"]
FreeStyle == [name |-> "CenteredFree", parent |-> "Heading2", alignment |-> "TA_CENTER"]
CompactStyle(text_size) ==
    [name |-> "CompactText", parent |-> "BodyText", fontSize |-> text_size,
     leading |-> text_size + 10, alignment |-> "TA_CENTER"]

\* PDFRenderer._create_cell_content
CreateCellContent(species, tg, grid_size, outcome) ==
    (IF tg.photo_on /\ species.image_url # ""
     THEN CellPhoto(species, ScalingFor(grid_size).photo_size, outcome)
     ELSE << >>)
    \o (IF CellNameParts(species, tg.common_on, tg.sci_on) # << >>
        THEN <<Paragraph(CellNameParts(species, tg.common_on, tg.sci_on),
                         CompactStyle(ScalingFor(grid_size).text_size))>>
        ELSE << >>)

\* one entry of tbl_data (lines 94-110)
TableCell(cell, tg, grid_size, outcomes) ==
    IF cell = FREE THEN <<Paragraph(<<[text |-> "FREE", italic |-> FALSE]>>, FreeStyle)>>
    ELSE IF IsSpecies(cell)
    THEN CreateCellContent(cell, tg, grid_size, PhotoOf(cell, outcomes))
    ELSE << >>

\* PDFRenderer._create_card_table
CreateCardTable(card, tg, outcomes) ==
    [type |-> "Table",
     data |-> [r \in 1..Len(card.grid) |->
                  [c \in 1..Len(card.grid[r]) |->
                      TableCell(card.grid[r][c], tg, card.size, outcomes)]],
     colWidths |-> [c \in 1..card.size |-> ScalingFor(card.size).cell_size],
     rowHeights |-> CalculateDynamicRowHeights(card, tg, card.size)]

PageBreak == [type |-> "PageBreak"]
Spacer(height) == [type |-> "Spacer", height |-> height]

\* a page break before every card
BreakBeforeEvery(card_idx) == card_idx >= 0

\* line 65: a page break before every card but the first (card_idx from 0)
BreakBefore(card_idx) == card_idx > 0

\* the loop of render_cards (lines 64-72) from card card_idx + 1 on
RECURSIVE CardElements(_, _, _, _, _)
CardElements(cards, card_idx, tg, title, outcomes) ==
    IF card_idx >= Len(cards) THEN << >>
    ELSE (IF BreakBefore(card_idx) THEN <<PageBreak>> ELSE << >>)
         \o <<Paragraph(<<[text |-> title, italic |-> FALSE]>>, TitleStyle),
              Spacer((2 * Inch) \div 10),
              CreateCardTable(cards[card_idx + 1], tg, outcomes)>>
         \o CardElements(cards, card_idx + 1, tg, title, outcomes)

\* an exception raised while a cell was made
TableRaised(element) ==
    /\ element.type = "Table"
    /\ \E r \in 1..Len(element.data) :
          \E c \in 1..Len(element.data[r]) :
            \E i \in 1..Len(element.data[r][c]) : element.data[r][c][i].type = "Raised"

\* doc.build: the flowables in order, a new page at every PageBreak
RECURSIVE Build(_, _, _)
Build(elements, i, pages) ==
    IF i > Len(elements) THEN pages
    ELSE IF elements[i] = PageBreak THEN Build(elements, i + 1, Append(pages, << >>))
    ELSE Build(elements, i + 1,
               [pages EXCEPT ![Len(pages)] = Append(pages[Len(pages)], elements[i])])

Document(elements) ==
    IF \E i \in 1..Len(elements) : TableRaised(elements[i])
    THEN [kind |-> "Exception"]
    ELSE [kind |-> "pdf", elements |-> elements, pages |-> Build(elements, 1, << << >> >>)]

\* PDFRenderer.render_cards
render_cards(cards, tg, title, outcomes) ==
    Document(CardElements(cards, 0, tg, title, outcomes))

----------------------------------------------------------------------------
(* The renderer as a state machine: one to MaxCards + 1 generated cards,   *)
(* the display toggles and the outcome of every photo; then one call of    *)
(* render_cards.                                                           *)

\* a pool in which some species have no names and some no photo URL
PhotoPool(p) ==
    [i \in 1..p |->
        IF i % 5 = 0 THEN [NamedPool(p, "mixed")[i] EXCEPT !.image_url = ""]
        ELSE NamedPool(p, "mixed")[i]]

\* the card sequences rendered: generate_cards over a full pool
CardRuns ==
    {GenerateCards(PhotoPool(n * n), k, n, TRUE, IntSeed(1),
                   [i \in 1..k |-> 0]).out :
        n \in {2, 3, 5}, k \in 1..MaxCards + 1}

InitRender ==
    /\ GenIdle
    /\ FetchIdle
    /\ CacheIdle
    /\ AppIdle
    /\ rcard = NoResult
    /\ row_heights = NoResult
    /\ rcards \in CardRuns
    /\ toggles \in Toggles
    /\ photos \in [1..MaxPhotos -> PhotoOutcomes]
    /\ rendered = NoResult

\* pdf_bytes = renderer.render_cards(cards, photo_on, common_on, sci_on, title)
CallRenderCards ==
    /\ rendered = NoResult
    /\ rendered' = render_cards(rcards.cards, toggles, "Bingo Cards", photos)
    /\ UNCHANGED <<rcards, photos, toggles>>

NextRender ==
    CallRenderCards
        /\ UNCHANGED <<genVars, fetchVars, cacheVars, appVars, rcard, row_heights>>

SpecRender == InitRender /\ [][NextRender]_vars

----------------------------------------------------------------------------
(* Properties of the renderer, checked under SpecRender. *)

IsPdf == rendered # NoResult /\ rendered.kind = "pdf"

\* the flowables of card k: a page break (k > 1), the title, a spacer, the
\* table, at positions 4(k - 1) to 4k - 1
BreakAt(k) == 4 * (k - 1)
TitleAt(k) == (4 * (k - 1)) + 1
TableAt(k) == (4 * k) - 1

\* C15: for K >= 1 cards render_cards emits, in card order, one title
\* followed by one table per card, the table being that of the card, with
\* exactly K - 1 page breaks: one immediately before each card after the
\* first, none before the first card or after the last; the document has one
\* page per card.
C15_TitleTablePerCard ==
    (rendered # NoResult /\ Len(rcards.cards) >= 1) =>
        /\ rendered.kind = "pdf"
        /\ Len(rendered.elements) = (4 * Len(rcards.cards)) - 1
        /\ \A k \in 1..Len(rcards.cards) :
            /\ k > 1 => rendered.elements[BreakAt(k)] = PageBreak
            /\ rendered.elements[TitleAt(k)].type = "Paragraph"
            /\ rendered.elements[TitleAt(k)].style = TitleStyle
            /\ rendered.elements[TableAt(k)].type = "Table"
            /\ \A r, c \in 1..rcards.cards[k].size :
                  rendered.elements[TableAt(k)].data[r][c] =
                      TableCell(rcards.cards[k].grid[r][c], toggles,
                                rcards.cards[k].size, photos)
        /\ Cardinality({i \in 1..Len(rendered.elements) :
                            rendered.elements[i] = PageBreak}) = Len(rcards.cards) - 1
        /\ Len(rendered.pages) = Len(rcards.cards)

C15_Witness ==
    /\ IsPdf
    /\ Len(rcards.cards) = 3
    /\ rcards.cards[1].size = 5
    /\ Len(rendered.elements) = 11
    /\ rendered.elements[4] = PageBreak
    /\ rendered.elements[8] = PageBreak
    /\ rendered.elements[11].type = "Table"

\* the photo of a cell was asked for and its download or decoding failed
PhotoFailed(cell) ==
    /\ IsSpecies(cell)
    /\ toggles.photo_on
    /\ cell.image_url # ""
    /\ PhotoOf(cell, photos) # "ok"

AllOk == [i \in 1..MaxPhotos |-> "ok"]

IsImage(flowable) == flowable.type = "Image"
IsText(flowable) == flowable.type = "Paragraph"
HasImage(flow) == \E i \in 1..Len(flow) : IsImage(flow[i])

\* the cell of card k at (r, c) as rendered, and as it is rendered when no
\* photo fails
RenderedCell(k, r, c) == rendered.elements[TableAt(k)].data[r][c]
UnfailedCell(k, r, c) ==
    TableCell(rcards.cards[k].grid[r][c], toggles, rcards.cards[k].size, AllOk)

\* C14: whatever the outcome of each photo (download error, timeout, decode
\* error, success), render_cards completes without raising; a cell whose
\* photo failed is rendered with its text and no photo; every other cell,
\* the row heights and the pages are those of a run in which nothing failed.
C14_PhotoFailureIsolated ==
    rendered # NoResult =>
        /\ rendered.kind = "pdf"
        /\ Len(rendered.pages) = Len(rcards.cards)
        /\ \A k \in 1..Len(rcards.cards) :
            /\ rendered.elements[TableAt(k)].rowHeights =
                   CalculateDynamicRowHeights(rcards.cards[k], toggles, rcards.cards[k].size)
            /\ \A r, c \in 1..rcards.cards[k].size :
                  IF PhotoFailed(rcards.cards[k].grid[r][c])
                  THEN /\ ~HasImage(RenderedCell(k, r, c))
                       /\ RenderedCell(k, r, c) = SelectSeq(UnfailedCell(k, r, c), IsText)
                  ELSE RenderedCell(k, r, c) = UnfailedCell(k, r, c)

C14_Witness ==
    /\ IsPdf
    /\ toggles = [photo_on |-> TRUE, common_on |-> TRUE, sci_on |-> TRUE]
    /\ photos = <<"decode_error", "timeout", "ok">>
    /\ Len(rcards.cards) = 2
    /\ rcards.cards[1].size = 5
    /\ \E r, c \in 1..5 :
          /\ PhotoFailed(rcards.cards[2].grid[r][c])
          /\ PhotoOf(rcards.cards[2].grid[r][c], photos) = "timeout"
          /\ Len(RenderedCell(2, r, c)) = 1
          /\ IsText(RenderedCell(2, r, c)[1])
    /\ \E r, c \in 1..5 :
          /\ HasImage(RenderedCell(2, r, c))
          /\ Len(RenderedCell(2, r, c)) = 2
    /\ RenderedCell(2, 3, 3) = UnfailedCell(2, 3, 3)
    /\ rcards.cards[2].grid[3][3] = FREE

----------------------------------------------------------------------------
(* inaturalist_client.py: fetch_top_species behind st.cache_data.  The     *)
(* cache is a set of entries [key, value, stored_at]; an entry is live     *)
(* while less than the ttl has passed since it was stored.                 *)

Hour == 60 * 60
CACHE_TTL == 60 * 60 * 12

\* selected_months is None (PyNone) or a list of months
MonthList(items) == [v |-> "list", items |-> items]

\* the ranked records the API holds for a place and a month filter: count
\* species of rank 10 with an allowed license, their ids particular to the
\* place and the filter; a malformed answer starts with a taxon without id
\* (line 73: an empty list of months sets no filter)
TaxonId(place, months, i) ==
    (10 * place) + (IF months = PyNone \/ months.items = << >> THEN 0 ELSE 5) + i

PlaceRecords(state, place, months) ==
    (IF state.malformed
     THEN <<[taxon |-> Taxon(Absent, JInt(10), Photo(JStr("cc0")))]>> ELSE << >>)
    \o [i \in 1..state.count |->
            [taxon |-> Taxon(JInt(TaxonId(place, months, i)), JInt(10),
                             Photo(JStr("cc-by")))]]

ApiDown == [status |-> "down"]
ApiUp(count, malformed) == [status |-> "up", count |-> count, malformed |-> malformed]

\* what requests.get and resp.json() give fetch_top_species (lines 63-83):
\* an error when the API is down, else the first per_page records
ApiAnswer(state, place, months, per_page) ==
    IF state.status = "down" THEN [status |-> "error"]
    ELSE [status |-> "ok",
          results |-> Prefix(PlaceRecords(state, place, months), per_page)]

\* the body of fetch_top_species with its request
FetchFromApi(state, place, n, months) ==
    FetchTopSpecies(ApiAnswer(state, place, months, Min(n * 3, 500)), n)

\* a key that leaves the month filter out
CacheKeyNoMonths(place, n, months) == <<place, n>>

\* the arguments st.cache_data makes the key of: all but _self
CacheKey(place, n, months) == <<place, n, months>>

Live(entry, now) == now < entry.stored_at + CACHE_TTL

\* a store that keeps only lists that hold species
StoreUnlessEmpty(entries, now, key, value) ==
    {e \in entries : e.key # key /\ Live(e, now)}
        \cup (IF value.species = << >> THEN {}
              ELSE {[key |-> key, value |-> value, stored_at |-> now]})

\* the returned value is stored under the key; expired entries are dropped
Store(entries, now, key, value) ==
    {e \in entries : e.key # key /\ Live(e, now)}
        \cup {[key |-> key, value |-> value, stored_at |-> now]}

Lookup(entries, now, key) == {e \in entries : e.key = key /\ Live(e, now)}

\* what the function returned or raised; a raised exception is not stored
AfterMiss(entries, now, key, res) ==
    [value |-> res,
     cache |-> IF res.kind = "species" THEN Store(entries, now, key, res) ELSE entries,
     upstream_called |-> TRUE]

\* client.fetch_top_species(place, n, months) through st.cache_data (line 43)
CachedFetch(entries, now, state, place, n, months) ==
    IF Lookup(entries, now, CacheKey(place, n, months)) # {}
    THEN [value |-> (CHOOSE e \in Lookup(entries, now, CacheKey(place, n, months)) :
                        TRUE).value,
          cache |-> entries,
          upstream_called |-> FALSE]
    ELSE AfterMiss(entries, now, CacheKey(place, n, months),
                   FetchFromApi(state, place, n, months))

----------------------------------------------------------------------------
(* The cached species source as a state machine: calls of                  *)
(* fetch_top_species with a few argument triples, while time passes and    *)
(* the API goes down, recovers and changes its data.                       *)

MaxTicks == 3       \* the clock runs for MaxTicks ticks

Tick == 5 * Hour

\* argument triples that differ in the place and count, or in the months only
FetchCalls ==
    {[place_id |-> 1, top_n |-> 2, months |-> PyNone],
     [place_id |-> 2, top_n |-> 1, months |-> PyNone],
     [place_id |-> 1, top_n |-> 2, months |-> MonthList(<<6>>)]}

CacheApiStates == {ApiDown, ApiUp(1, FALSE), ApiUp(2, FALSE)}

InitCache ==
    /\ GenIdle
    /\ RowsIdle
    /\ FetchIdle
    /\ RenderIdle
    /\ AppIdle
    /\ api \in CacheApiStates
    /\ cache = {}
    /\ clock = 0
    /\ fetch_log = NoCall

LogOf(args, out) ==
    [op |-> "fetch_top_species", place_id |-> args.place_id, top_n |-> args.top_n,
     months |-> args.months, at |-> clock, api |-> api, before |-> cache,
     upstream_called |-> out.upstream_called, returned |-> out.value]

\* a caller fetches the species of a place
CallCachedFetch ==
    \E args \in FetchCalls :
        /\ cache' = CachedFetch(cache, clock, api, args.place_id, args.top_n,
                                args.months).cache
        /\ fetch_log' = LogOf(args, CachedFetch(cache, clock, api, args.place_id,
                                                args.top_n, args.months))
        /\ UNCHANGED <<api, clock>>

\* time passes
TickClock ==
    /\ clock < MaxTicks * Tick
    /\ clock' = clock + Tick
    /\ UNCHANGED <<api, cache, fetch_log>>

\* the API fails, recovers, or its counts change
ApiChanges ==
    /\ api' \in CacheApiStates \ {api}
    /\ UNCHANGED <<cache, clock, fetch_log>>

NextCache ==
    (CallCachedFetch \/ TickClock \/ ApiChanges)
        /\ UNCHANGED <<genVars, rowVars, fetchVars, renderVars, appVars>>

SpecCache == InitCache /\ [][NextCache]_vars

----------------------------------------------------------------------------
(* Properties of the cache, checked under SpecCache. *)

Fetched == fetch_log # NoCall

\* the entries stored, before the logged call, under its (place, count, months)
OwnEntries ==
    {e \in fetch_log.before :
        e.key = <<fetch_log.place_id, fetch_log.top_n, fetch_log.months>>}

Age(entry) == fetch_log.at - entry.stored_at

\* what the API would have answered the logged call
FreshResult ==
    FetchFromApi(fetch_log.api, fetch_log.place_id, fetch_log.top_n, fetch_log.months)

EmptyList == [kind |-> "species", species |-> << >>]

\* C16: results are cached per (place, count, months): a call with an entry
\* of its own key younger than the TTL of 12 hours returns that entry's
\* value without an upstream call; a call never returns the entry of another
\* key; once the TTL has elapsed the entry counts no more and the call
\* queries upstream and returns its answer.
C16_CachedPerKeyWithinTtl ==
    Fetched =>
        /\ \A e \in OwnEntries :
              Age(e) < 12 * Hour =>
                  ~fetch_log.upstream_called /\ fetch_log.returned = e.value
        /\ ~fetch_log.upstream_called =>
              \E e \in OwnEntries : fetch_log.returned = e.value
        /\ (\A e \in OwnEntries : Age(e) >= 12 * Hour) =>
              fetch_log.upstream_called /\ fetch_log.returned = FreshResult

\* the logged call met its own entry expired and the live entry of another
\* key, and returned the fresh answer, which is neither
C16_Witness ==
    /\ Fetched
    /\ fetch_log.upstream_called
    /\ \E e \in OwnEntries : Age(e) >= 12 * Hour /\ e.value # fetch_log.returned
    /\ \E e \in fetch_log.before \ OwnEntries :
          /\ Age(e) < 12 * Hour
          /\ e.key[1] = fetch_log.place_id
          /\ e.key[2] = fetch_log.top_n
          /\ e.value # fetch_log.returned
    /\ fetch_log.returned # EmptyList

\* the entry a failed fetch leaves behind
FailureEntry ==
    [key |-> <<fetch_log.place_id, fetch_log.top_n, fetch_log.months>>,
     value |-> EmptyList, stored_at |-> fetch_log.at]

\* C20: the empty list of a failed fetch is stored under its (place, count,
\* months) like a successful result: after a call that found the API down
\* the cache holds the empty list under the call's key; a call that finds
\* such an entry of its own key younger than the TTL returns the empty list
\* without an upstream call, whatever the API would answer by then; only a
\* call after the TTL, or a call with another key, queries upstream.
C20_FailureCachedAsResult ==
    Fetched =>
        /\ (fetch_log.upstream_called /\ fetch_log.api = ApiDown) =>
              fetch_log.returned = EmptyList /\ FailureEntry \in cache
        /\ \A e \in OwnEntries :
              (e.value = EmptyList /\ Age(e) < 12 * Hour) =>
                  ~fetch_log.upstream_called /\ fetch_log.returned = EmptyList
        /\ (\A e \in OwnEntries : Age(e) >= 12 * Hour) => fetch_log.upstream_called

\* the API has recovered and would answer with species, yet the call gets
\* the empty list a failed fetch stored ten hours earlier
C20_Witness ==
    /\ Fetched
    /\ ~fetch_log.upstream_called
    /\ fetch_log.returned = EmptyList
    /\ fetch_log.api = ApiUp(2, FALSE)
    /\ FreshResult # EmptyList
    /\ \E e \in OwnEntries : Age(e) = 10 * Hour /\ e.value = EmptyList
    /\ \E e \in fetch_log.before \ OwnEntries : e.value # EmptyList

----------------------------------------------------------------------------
(* ui.py: the form and _process_form_data.  A run is one submitted form;   *)
(* pc is the stage the run is about to perform.                            *)

\* line 96: "seed": seed if seed else None
FormSeed(seed) == IF seed # 0 THEN IntSeed(seed) ELSE NoSeed

\* form_data of _render_form (lines 90-105) for the values of the widgets
FormData(w) ==
    [place_query |-> w.place_query, grid_size |-> w.grid_size, top_n |-> w.top_n,
     num_cards |-> w.num_cards, seed |-> FormSeed(w.seed),
     free_square |-> w.free_square, photo_on |-> w.photo_on,
     common_on |-> w.common_on, sci_on |-> w.sci_on, title |-> w.title,
     selected_months |-> IF w.time_filter_enabled THEN MonthList(w.selected_months)
                         ELSE PyNone]

\* str.isdigit and int() on the place texts of the model
IsDigit(place_query) == place_query \in {"0", "7"}
ParseInt(place_query) == IF place_query = "7" THEN 7 ELSE 0

\* INaturalistClient.lookup_place_id on the answer of places/autocomplete
LookupPlaceId(answer) ==
    IF answer.status = "error" THEN PyNone
    ELSE IF answer.results = << >> THEN PyNone
    ELSE answer.results[1].id

\* BingoApp._get_place_id
GetPlaceId(place_query, answer) ==
    IF IsDigit(place_query) THEN JInt(ParseInt(place_query))
    ELSE LookupPlaceId(answer)

\* BingoApp._fetch_species_data: the list, or None after an exception
FetchSpeciesData(value) == IF value.kind = "species" THEN value ELSE PyNone

\* not species_pool (line 126)
NoPool(pool) == pool = PyNone \/ pool.species = << >>

\* a check that lets every pool pass
PoolNeverTooSmall(pool_len, grid_size) == pool_len < 0

\* line 130: len(species_pool) < grid_size ** 2
PoolTooSmall(pool_len, grid_size) == pool_len < grid_size * grid_size

Error(text) == [kind |-> "error", text |-> text]

----------------------------------------------------------------------------
(* The application as a state machine: one submitted form and the run of   *)
(* _process_form_data on it, against an API that is down or holds some     *)
(* number of species, and a cache that is empty or holds what an earlier   *)
(* run stored.                                                             *)

\* the values of the widgets when the form is submitted
Widgets ==
    {[place_query |-> q, grid_size |-> g, top_n |-> n, num_cards |-> k, seed |-> sd,
      free_square |-> f, photo_on |-> ph, common_on |-> TRUE, sci_on |-> TRUE,
      title |-> "Bingo: Field Trip Edition", time_filter_enabled |-> tf,
      selected_months |-> IF tf THEN <<6>> ELSE << >>] :
        q \in {"", "Nowhere", "Monterey", "0", "7"}, g \in {3, 5}, n \in {10, 25}, k \in 1..MaxCards,
        sd \in 0..1, f \in BOOLEAN, ph \in BOOLEAN, tf \in BOOLEAN}

\* what places/autocomplete answers: an error, no place, or the place
PlaceAnswers(place_query) ==
    {[status |-> "error"],
     [status |-> "ok",
      results |-> IF place_query = "Monterey" THEN <<[id |-> JInt(1)]>> ELSE << >>]}

\* the API is down, or holds so many species for every place; the counts lie
\* at and below the capacities of the 3x3 and 5x5 grids
AppApiStates ==
    {ApiDown, ApiUp(25, TRUE)} \cup {ApiUp(count, FALSE) : count \in {0, 8, 9, 24, 25}}

\* the cache is empty, or an earlier run stored what it got for place 1
\* while the API was down
AppCaches == {{}, Store({}, 0, CacheKey(1, 25, PyNone), FetchFromApi(ApiDown, 1, 25, PyNone))}

AppPhotoRuns ==
    {[i \in 1..MaxPhotos |-> "ok"],
     [i \in 1..MaxPhotos |-> IF i = 1 THEN "timeout" ELSE "ok"]}

InitApp ==
    /\ GenIdle
    /\ RowsIdle
    /\ FetchIdle
    /\ RenderIdle
    /\ AppIdle
    /\ api \in AppApiStates
    /\ cache \in AppCaches
    /\ clock = Tick
    /\ fetch_log = NoCall

\* form_data = self._render_form() with the button pressed (lines 30-33)
SubmitForm ==
    /\ pc = "idle"
    /\ \E w \in Widgets : form' = [op |-> "submitted", widgets |-> w, data |-> FormData(w)]
    /\ pc' = "place"
    /\ UNCHANGED <<place_id, app_pool, ui_out, cache, fetch_log, renderVars>>

\* st.error(...); return
Abort(text) ==
    /\ ui_out' = Append(ui_out, Error(text))
    /\ pc' = "aborted"

\* lines 111-119: the place text is validated and resolved
ResolvePlace ==
    /\ pc = "place"
    /\ IF form.data.place_query = ""
       THEN Abort("Please enter a place name or ID.") /\ UNCHANGED place_id
       ELSE \E answer \in PlaceAnswers(form.data.place_query) :
              /\ place_id' = GetPlaceId(form.data.place_query, answer)
              /\ IF Truthy(place_id')
                 THEN pc' = "fetch" /\ UNCHANGED ui_out
                 ELSE Abort("Place not found on iNaturalist.")
    /\ UNCHANGED <<form, app_pool, cache, fetch_log, renderVars>>

\* the outcome of lines 122-127 for what the cached call gave
Fetched_(out) ==
    /\ cache' = out.cache
    /\ fetch_log' = LogOf([place_id |-> place_id.x, top_n |-> form.data.top_n,
                           months |-> form.data.selected_months], out)
    /\ app_pool' = FetchSpeciesData(out.value)
    /\ ui_out' = IF out.value.kind = "species" THEN ui_out
                 ELSE Append(ui_out, Error("Error fetching species data"))
    /\ pc' = IF NoPool(app_pool') THEN "aborted" ELSE "capacity"

\* lines 122-127: species_pool = self._fetch_species_data(...)
FetchSpecies ==
    /\ pc = "fetch"
    /\ Fetched_(CachedFetch(cache, clock, api, place_id.x, form.data.top_n,
                            form.data.selected_months))
    /\ UNCHANGED <<form, place_id, renderVars>>

\* lines 129-134: the pool is measured against the grid
CheckCapacity ==
    /\ pc = "capacity"
    /\ IF PoolTooSmall(Len(app_pool.species), form.data.grid_size)
       THEN Abort("Not enough species observations to fill the requested card size.")
       ELSE pc' = "generate" /\ UNCHANGED ui_out
    /\ UNCHANGED <<form, place_id, app_pool, cache, fetch_log, renderVars>>

\* the outcome of line 137 for what generate_cards gave
Generated(gen) ==
    /\ rcards' = gen.out
    /\ app_pool' = [app_pool EXCEPT !.species = gen.pool]
    /\ pc' = IF gen.out.kind = "cards" THEN "render" ELSE "crashed"

\* line 137: cards = self._generate_cards(species_pool, form_data)
StageGenerateCards ==
    /\ pc = "generate"
    /\ \E entropies \in EntropyRuns :
          Generated(GenerateCards(app_pool.species, form.data.num_cards,
                                  form.data.grid_size, form.data.free_square,
                                  form.data.seed, entropies))
    /\ UNCHANGED <<form, place_id, ui_out, cache, fetch_log, photos, rendered>>

\* line 140: pdf_bytes = self._render_pdf(cards, form_data)
StageRenderPdf ==
    /\ pc = "render"
    /\ \E outcomes \in AppPhotoRuns :
          /\ photos' = outcomes
          /\ rendered' = render_cards(rcards.cards, form.data, form.data.title, outcomes)
    /\ pc' = IF rendered'.kind = "pdf" THEN "offer" ELSE "crashed"
    /\ UNCHANGED <<form, place_id, app_pool, ui_out, cache, fetch_log, rcards>>

\* lines 143-150: st.success and st.download_button
StageDownload ==
    /\ pc = "offer"
    /\ ui_out' = ui_out \o <<[kind |-> "success", text |-> "Done!"],
                              [kind |-> "download_button", data |-> rendered,
                               file_name |-> "inat_bingo_cards.pdf",
                               mime |-> "application/pdf"]>>
    /\ pc' = "done"
    /\ UNCHANGED <<form, place_id, app_pool, cache, fetch_log, renderVars>>

NextApp ==
    (\/ SubmitForm
     \/ ResolvePlace
     \/ FetchSpecies
     \/ CheckCapacity
     \/ StageGenerateCards
     \/ StageRenderPdf
     \/ StageDownload)
        /\ UNCHANGED <<genVars, rowVars, fetchVars, api, clock>>

SpecApp == InitApp /\ [][NextApp]_vars

----------------------------------------------------------------------------
(* Properties of the application, checked under SpecApp. *)

Shown(kind) == {i \in 1..Len(ui_out) : ui_out[i].kind = kind}
ErrorShown(text) == \E i \in Shown("error") : ui_out[i].text = text
DownloadOffered == Shown("download_button") # {}

\* nothing was generated, rendered or offered
NothingProduced ==
    /\ rcards = NoResult
    /\ rendered = NoResult
    /\ ~DownloadOffered

\* the species query of the run has returned
FetchReturned == app_pool # NoResult

\* C12: when the species query fails or returns no species, the run reports
\* an error message to the user and is aborted: no cards are generated, no
\* document is rendered and no download is offered.
C12_EmptyFetchReported ==
    (FetchReturned /\ NoPool(app_pool)) =>
        /\ pc = "aborted"
        /\ Shown("error") # {}
        /\ NothingProduced

\* the capacity check of the run has been passed or failed
CapacityDecided ==
    /\ FetchReturned
    /\ ~NoPool(app_pool)
    /\ pc # "capacity"

CapacityMessage == "Not enough species observations to fill the requested card size."

\* C13: the run reports the capacity error and aborts before rendering
\* exactly when the pool is smaller than N * N less one for a requested free
\* cell with N odd; a pool that meets the requirement goes on to generation
\* and rendering.
C13_CapacityErrorExact ==
    CapacityDecided =>
        IF Len(app_pool.species) < Required(form.data.grid_size, form.data.free_square)
        THEN ErrorShown(CapacityMessage) /\ pc = "aborted" /\ NothingProduced
        ELSE ~ErrorShown(CapacityMessage) /\ pc \in {"generate", "render", "offer", "done"}

\* C18: a run submitted with seed 0 generates card i with seed 0 + i, not
\* with unseeded randomness.
C18_SeedZeroIsSeed ==
    (form # NoCall /\ rcards # NoResult /\ rcards.kind = "cards") =>
        (form.widgets.seed = 0 =>
            \A i \in 1..Len(rcards.cards) : rcards.cards[i].seed = IntSeed(0 + (i - 1)))

\* the stages at or after a given stage, in the order of _process_form_data
StagesFrom(stage) ==
    CASE stage = "fetch" -> {"fetch", "capacity", "generate", "render", "offer", "done"}
      [] stage = "capacity" -> {"capacity", "generate", "render", "offer", "done"}
      [] stage = "generate" -> {"generate", "render", "offer", "done"}
      [] stage = "render" -> {"render", "offer", "done"}
      [] stage = "offer" -> {"offer", "done"}

\* what each stage leaves behind when it succeeds
PlaceResolved == form.data.place_query # "" /\ Truthy(place_id)
PoolFetched == FetchReturned /\ ~NoPool(app_pool)
CapacityMet ==
    Len(app_pool.species) >= form.data.grid_size * form.data.grid_size
CardsGenerated ==
    /\ rcards # NoResult
    /\ rcards.kind = "cards"
    /\ Len(rcards.cards) = form.data.num_cards
DocumentRendered ==
    /\ rendered # NoResult
    /\ rendered.kind = "pdf"
    /\ Len(rendered.pages) = form.data.num_cards
    /\ Cardinality({i \in 1..Len(rendered.elements) :
                        rendered.elements[i].type = "Table"}) = form.data.num_cards

\* the four causes of an aborted run
AbortCause ==
    \/ form.data.place_query = ""
    \/ ~Truthy(place_id)
    \/ NoPool(app_pool)
    \/ ~CapacityMet

\* C19: the stages of a run come in the order place resolution, species
\* fetch, capacity check, card generation, document rendering, download
\* offer, and a stage is reached only when every earlier stage succeeded
\* (and its output exists only once it was reached); a run that aborts has
\* one of the four causes, renders no document and offers no download; a run
\* that offers a download offers the rendered document, which holds exactly
\* the requested number of cards.
C19_StagesInOrder ==
    /\ pc \in StagesFrom("fetch") => PlaceResolved
    /\ pc \in StagesFrom("capacity") => PoolFetched
    /\ pc \in StagesFrom("generate") => CapacityMet
    /\ pc \in StagesFrom("render") => CardsGenerated
    /\ pc \in StagesFrom("offer") => DocumentRendered
    /\ place_id # NoResult => pc \in StagesFrom("fetch") \cup {"aborted"}
    /\ FetchReturned => pc \in StagesFrom("capacity") \cup {"aborted"}
    /\ rcards # NoResult => pc \in StagesFrom("render")
    /\ rendered # NoResult => pc \in StagesFrom("offer")
    /\ pc = "aborted" => AbortCause /\ NothingProduced
    /\ DownloadOffered <=> pc = "done"
    /\ DownloadOffered =>
          /\ Cardinality(Shown("download_button")) = 1
          /\ \A i \in Shown("download_button") : ui_out[i].data = rendered

C19_Witness ==
    /\ pc = "done"
    /\ DownloadOffered
    /\ form.data.num_cards = 2
    /\ form.data.grid_size = 5
    /\ form.data.place_query = "Monterey"
    /\ Len(app_pool.species) = 25
    /\ Len(rendered.pages) = 2
    /\ fetch_log.upstream_called

====
